---- MODULE Spec2Model ----
(***************************************************************************)
(* The MapsScraper dashboard client: its polling hooks (useScraperStatus,  *)
(* useMetrics, useLogs and the combined useScraper poll), the keyword      *)
(* hooks (useKeywords, useScraper), the Keywords page, the KeywordManager  *)
(* widget and the control handlers.  The backend is an external HTTP       *)
(* service: every response it gives is an input drawn from a small set.    *)
(*                                                                         *)
(* Every step leaves in `out` what it did that can be observed from        *)
(* outside the hook: the requests it issued, the notifications it raised   *)
(* and the state setters it called.                                        *)
(*                                                                         *)
(* The hooks and handlers of different components share no state, so a     *)
(* behaviour follows one component instance, `view`, chosen at the start:  *)
(* a polling hook from its mount, or a component with its handlers and the *)
(* poll of the page it is on, until App unmounts that page.                *)
(***************************************************************************)
EXTENDS Integers, Sequences, FiniteSets, TLC

VARIABLES
    view,       \* the component instance this behaviour follows
    vPhase,     \* the followed view of Views: "mounted" | "torn"; "none" otherwise
    phase,      \* per polling hook: "init" | "mounted" | "torn" (its consuming view)
    gen,        \* per polling hook: runs of its effect so far (closure generation)
    timers,     \* per polling hook: the effect runs whose interval timer is set
    logLimit,   \* useLogs: the limit argument of the latest render
    hookVal,    \* per polling hook: the held status / metrics / logs
    hookErr,    \* per polling hook: the held error
    isLoading,  \* useScraperStatus: isLoading
    inflight,   \* per polling hook: the fetches awaiting their response
    nextSeq,    \* per polling hook: fetches issued so far
    applied,    \* per polling hook: issue number of the fetch applied last
    sPhase,     \* useScraper: "init" | "mounted" | "torn"
    sStatus,    \* useScraper: status
    sMetrics,   \* useScraper: metrics
    sLogs,      \* useScraper: logs
    sTicks,     \* useScraper: interval callbacks suspended at an await
    sNextTick,  \* useScraper: interval callbacks started so far
    sApplied,   \* useScraper: per read, number of the callback applied last
    sKeywords,  \* useScraper: keywords
    keywords,   \* useKeywords: keywords
    loading,    \* useKeywords: loading
    pagination, \* useKeywords: pagination
    uploadMode, \* Keywords page: the mode selector
    calls,      \* user-initiated calls (and keyword fetches) awaiting their response
    nextId,     \* call numbers handed out so far
    records,    \* backend: the keyword records of the authoritative store
    nextRecId,  \* backend: record ids handed out so far
    out         \* what the last step did: requests, notifications, setter calls

hookVars ==
    <<phase, gen, timers, logLimit, hookVal, hookErr, isLoading, inflight, nextSeq, applied>>

scraperVars == <<sPhase, sStatus, sMetrics, sLogs, sTicks, sNextTick, sApplied>>

pollVars == <<hookVars, scraperVars>>

backendVars == <<records, nextRecId>>

actVars ==
    <<view, vPhase, sKeywords, keywords, loading, pagination, uploadMode, calls, nextId,
      backendVars>>

-----------------------------------------------------------------------------
(* Bounds of the model.                                                    *)

MaxFetch == 3     \* fetches one polling hook issues in a behaviour
MaxTicks == 2     \* interval callbacks the useScraper poll starts in a behaviour
MaxGen == 2       \* runs of one polling hook's effect in a behaviour
MaxCalls == 3     \* call numbers handed out to user-initiated calls in a behaviour
MaxPage == 2      \* pages of the keyword list a consumer asks for
MaxRecId == 4     \* record ids the backend hands out in a behaviour

-----------------------------------------------------------------------------
(* Values exchanged with the backend.                                      *)

Null == [null |-> TRUE]

Hooks == {"useScraperStatus", "useMetrics", "useLogs"}

Statuses == {"idle", "running", "paused", "stopped", "error"}

Snapshot(n, f) == [total |-> n, done |-> 0, pending |-> n - f, processing |-> 0, failed |-> f]

MetricsSnaps == {Snapshot(2, 0), Snapshot(3, 1)}

LogLine(m) == [level |-> "INFO", message |-> m]

LogWindows == {<<LogLine("a")>>, <<LogLine("b"), LogLine("c")>>}

\* A failed call, as axios rejects it: status 0 stands for "no response".
TransportError == [status |-> 0, detail |-> "", message |-> "Network Error"]
ValidationError == [status |-> 400, detail |-> "Invalid file",
                    message |-> "Request failed with status code 400"]
ServerError == [status |-> 500, detail |-> "",
                message |-> "Request failed with status code 500"]

Errors == {TransportError, ValidationError, ServerError}

\* JavaScript's a || b on strings: the empty (or missing) string is falsy.
Or(a, b) == IF a # "" THEN a ELSE b

\* A request: params is the query object, form the multipart fields.
Get(path) == [method |-> "GET", path |-> path, params |-> Null, form |-> {}]
GetWith(path, params) == [method |-> "GET", path |-> path, params |-> params, form |-> {}]
Post(path, form) == [method |-> "POST", path |-> path, params |-> Null, form |-> form]

\* A notification: text is the sequence of the parts its string is built from.
Toast(level, text) == [level |-> level, text |-> text]

NoReq == [seq |-> 0]

Quiet(src, op) ==
    [src |-> src, op |-> op, req |-> NoReq, reqs |-> <<>>, toasts |-> <<>>,
     writes |-> {}, late |-> FALSE, tickChanged |-> FALSE,
     arg |-> "", confirm |-> "none", res |-> Null, before |-> Null, result |-> "none"]

-----------------------------------------------------------------------------
(* services/api.js                                                         *)

\* The notifications the response interceptor raises for a rejected call.
InterceptorAnyStatus(err) ==
    LET msg == Or(err.detail, Or(err.message, "An unexpected error occurred"))
    IN  IF err.status >= 400 THEN <<Toast("error", <<"Server Error: ", msg>>)>> ELSE <<>>

Interceptor(err) ==
    LET msg == Or(err.detail, Or(err.message, "An unexpected error occurred"))
    IN  IF err.status >= 500 THEN <<Toast("error", <<"Server Error: ", msg>>)>> ELSE <<>>

getScraperStatus == Get("/status")
getMetrics == Get("/metrics")
getLogs(limit) == GetWith("/logs", [limit |-> limit])

\* The limit useLogs passes when the dashboard gives none.
DefaultLogLimit == 100

\* The limits a render may pass to useLogs.
LogLimits == {DefaultLogLimit, 50, 20}

-----------------------------------------------------------------------------
(* hooks/useScraperStatus.js, hooks/useMetrics.js, hooks/useLogs.js        *)

InitVal(h) ==
    CASE h = "useScraperStatus" -> "idle"
      [] h = "useMetrics" -> Null
      [] h = "useLogs" -> <<>>

Field(h) ==
    CASE h = "useScraperStatus" -> "status"
      [] h = "useMetrics" -> "metrics"
      [] h = "useLogs" -> "logs"

\* The request a hook's fetch function sends; l is the limit its effect run
\* closed over.
Call(h, l) ==
    CASE h = "useScraperStatus" -> getScraperStatus
      [] h = "useMetrics" -> getMetrics
      [] h = "useLogs" -> getLogs(l)

\* The bodies the backend may answer a hook's call with.
Responses(h) ==
    CASE h = "useScraperStatus" -> {[status |-> s] : s \in Statuses}
      [] h = "useMetrics" -> MetricsSnaps
      [] h = "useLogs" -> LogWindows

\* What the hook keeps of a response body.
KeptAppended(h, data) ==
    CASE h = "useScraperStatus" -> data.status
      [] h = "useMetrics" -> data
      [] h = "useLogs" -> hookVal[h] \o data

Kept(h, data) == IF h = "useScraperStatus" THEN data.status ELSE data

\* The closure variable isMounted of the effect run that issued fetch r.
isMounted(h, r) == phase[h] = "mounted" /\ r.gen = gen[h]

\* The network calls one call of fetchStatus / fetchMetrics / fetchLogs starts,
\* in the effect run g.
NewFetchesTwice(h, g) ==
    {[seq |-> nextSeq[h] + 1, gen |-> g], [seq |-> nextSeq[h] + 2, gen |-> g]}

NewFetches(h, g) == {[seq |-> nextSeq[h] + 1, gen |-> g]}

\* One call of fetchStatus / fetchMetrics / fetchLogs, up to its await.
fetchIssue(h, g) ==
    /\ nextSeq[h] < MaxFetch
    /\ nextSeq' = [nextSeq EXCEPT ![h] = @ + 1]
    /\ inflight' = [inflight EXCEPT ![h] = @ \cup NewFetches(h, g)]

\* The effect body: isMounted = true, a first fetch, setInterval.
effectRun(h) ==
    /\ UNCHANGED <<scraperVars, actVars>>
    /\ view = h
    /\ phase[h] = "init"
    /\ gen[h] < MaxGen
    /\ gen' = [gen EXCEPT ![h] = @ + 1]
    /\ phase' = [phase EXCEPT ![h] = "mounted"]
    /\ timers' = [timers EXCEPT ![h] = @ \cup {gen[h] + 1}]
    /\ fetchIssue(h, gen[h] + 1)
    /\ out' = [Quiet(h, "effect") EXCEPT !.reqs = <<Call(h, logLimit)>>]
    /\ UNCHANGED <<logLimit, hookVal, hookErr, isLoading, applied>>

\* The interval of an effect run fires: its timer is set from the effect
\* body to clearInterval, and it calls the fetch function of that run.
intervalTick(h) ==
    /\ UNCHANGED <<scraperVars, actVars>>
    /\ \E g \in timers[h] : fetchIssue(h, g)
    /\ out' = [Quiet(h, "tick") EXCEPT !.reqs = <<Call(h, logLimit)>>]
    /\ UNCHANGED <<phase, gen, timers, logLimit, hookVal, hookErr, isLoading, applied>>

\* isLoading after the finally block of fetchStatus; the other hooks have none.
FinallySkipped(h) == isLoading

FinallyLoading(h) == IF h = "useScraperStatus" THEN FALSE ELSE isLoading

\* The value the hook holds after the catch block has run.
CatchBlanks(h) == InitVal(h)

CatchKeeps(h) == hookVal[h]

\* The try block after the await, and (useScraperStatus) the finally block.
fetchResolved(h, r, data) ==
    /\ UNCHANGED <<scraperVars, actVars>>
    /\ r \in inflight[h]
    /\ inflight' = [inflight EXCEPT ![h] = @ \ {r}]
    /\ IF isMounted(h, r)
       THEN /\ hookVal' = [hookVal EXCEPT ![h] = Kept(h, data)]
            /\ hookErr' = [hookErr EXCEPT ![h] = Null]
            /\ applied' = [applied EXCEPT ![h] = r.seq]
            /\ isLoading' = FinallyLoading(h)
            /\ out' = [Quiet(h, "resolved") EXCEPT
                          !.req = r, !.res = data, !.before = hookVal[h],
                          !.tickChanged = (hookVal[h] # Kept(h, data)),
                          !.writes = {Field(h), "error"} \cup
                                     (IF h = "useScraperStatus" THEN {"isLoading"} ELSE {})]
       ELSE /\ UNCHANGED <<hookVal, hookErr, applied, isLoading>>
            /\ out' = [Quiet(h, "resolved") EXCEPT
                          !.req = r, !.res = data, !.late = (phase[h] = "torn")]
    /\ UNCHANGED <<phase, gen, timers, logLimit, nextSeq>>

\* The catch block, after the interceptor has seen the rejection.
fetchRejected(h, r, err) ==
    /\ UNCHANGED <<scraperVars, actVars>>
    /\ r \in inflight[h]
    /\ inflight' = [inflight EXCEPT ![h] = @ \ {r}]
    /\ hookVal' = [hookVal EXCEPT ![h] = CatchKeeps(h)]
    /\ IF isMounted(h, r)
       THEN /\ hookErr' = [hookErr EXCEPT ![h] = err]
            /\ isLoading' = FinallyLoading(h)
            /\ out' = [Quiet(h, "rejected") EXCEPT
                          !.req = r, !.res = err,
                          !.toasts = Interceptor(err),
                          !.tickChanged = (hookVal[h] # CatchKeeps(h)),
                          !.writes = {"error"} \cup
                                     (IF h = "useScraperStatus" THEN {"isLoading"} ELSE {})]
       ELSE /\ UNCHANGED <<hookErr, isLoading>>
            /\ out' = [Quiet(h, "rejected") EXCEPT
                          !.req = r, !.res = err, !.toasts = Interceptor(err),
                          !.tickChanged = (hookVal[h] # CatchKeeps(h)),
                          !.late = (phase[h] = "torn")]
    /\ UNCHANGED <<phase, gen, timers, logLimit, nextSeq, applied>>

ClearedNothing(h) == timers[h]

\* The timers left after the cleanup of the current effect run:
\* clearInterval(intervalId).
Cleared(h) == timers[h] \ {gen[h]}

\* The effect's cleanup when the view is torn down.
effectCleanup(h) ==
    /\ UNCHANGED <<scraperVars, actVars>>
    /\ phase[h] = "mounted"
    /\ phase' = [phase EXCEPT ![h] = "torn"]
    /\ timers' = [timers EXCEPT ![h] = Cleared(h)]
    /\ out' = Quiet(h, "cleanup")
    /\ UNCHANGED <<gen, logLimit, hookVal, hookErr, isLoading, inflight, nextSeq, applied>>

\* A dependency of the effect (intervalMs, limit) changes while the view is
\* mounted: the cleanup of the previous run, then the effect body again.
\* l is the limit of the new render: only useLogs has one, and it is the
\* same as before when it is intervalMs that changed.
effectRerun(h, l) ==
    /\ UNCHANGED <<scraperVars, actVars>>
    /\ phase[h] = "mounted"
    /\ l \in LogLimits
    /\ h # "useLogs" => l = logLimit
    /\ logLimit' = l
    /\ gen[h] < MaxGen
    /\ gen' = [gen EXCEPT ![h] = @ + 1]
    /\ timers' = [timers EXCEPT ![h] = Cleared(h) \cup {gen[h] + 1}]
    /\ fetchIssue(h, gen[h] + 1)
    /\ out' = [Quiet(h, "rerun") EXCEPT !.reqs = <<Call(h, l)>>]
    /\ UNCHANGED <<phase, hookVal, hookErr, isLoading, applied>>

-----------------------------------------------------------------------------
(* useScraper (hooks/useScraper): the polling effect                       *)

InitMetrics == [total |-> 0, done |-> 0, pending |-> 0, processing |-> 0, failed |-> 0]

\* The limit the combined poll asks the log window for.
ScraperLogLimit == 50

\* useEffect body: setInterval(async () => ..., 2000).
scraperMount ==
    /\ UNCHANGED <<hookVars, actVars>>
    /\ view = "useScraper"
    /\ sPhase = "init"
    /\ sPhase' = "mounted"
    /\ out' = Quiet("useScraper", "effect")
    /\ UNCHANGED <<sStatus, sMetrics, sLogs, sTicks, sNextTick, sApplied>>

\* The interval callback starts and suspends at its first await.
scraperTick ==
    /\ UNCHANGED <<hookVars, actVars>>
    /\ sPhase = "mounted"
    /\ sNextTick < MaxTicks
    /\ sNextTick' = sNextTick + 1
    /\ sTicks' = sTicks \cup {[seq |-> sNextTick + 1, pc |-> "status", changed |-> FALSE]}
    /\ out' = [Quiet("useScraper", "tick") EXCEPT !.reqs = <<Get("/status")>>]
    /\ UNCHANGED <<sPhase, sStatus, sMetrics, sLogs, sApplied>>

ScraperResponses(pc) ==
    CASE pc = "status" -> {[status |-> s] : s \in Statuses}
      [] pc = "metrics" -> MetricsSnaps
      [] pc = "logs" -> LogWindows

\* The callback resumes after a successful await: a setter, then the next read.
scraperResolved(t, data) ==
    /\ UNCHANGED <<hookVars, actVars>>
    /\ t \in sTicks
    /\ CASE t.pc = "status" ->
              /\ sStatus' = data.status
              /\ sTicks' = (sTicks \ {t}) \cup
                     {[t EXCEPT !.pc = "metrics",
                                !.changed = @ \/ sStatus # data.status]}
              /\ out' = [Quiet("useScraper", "resolved") EXCEPT
                            !.req = t, !.res = data, !.before = sStatus,
                            !.writes = {"status"},
                            !.tickChanged = (t.changed \/ sStatus # data.status),
                            !.reqs = <<Get("/metrics")>>, !.late = (sPhase = "torn")]
              /\ UNCHANGED <<sMetrics, sLogs>>
         [] t.pc = "metrics" ->
              /\ sMetrics' = data
              /\ sTicks' = (sTicks \ {t}) \cup
                     {[t EXCEPT !.pc = "logs",
                                !.changed = @ \/ sMetrics # data]}
              /\ out' = [Quiet("useScraper", "resolved") EXCEPT
                            !.req = t, !.res = data, !.before = sMetrics,
                            !.writes = {"metrics"},
                            !.tickChanged = (t.changed \/ sMetrics # data),
                            !.reqs = <<GetWith("/logs", [limit |-> ScraperLogLimit])>>,
                            !.late = (sPhase = "torn")]
              /\ UNCHANGED <<sStatus, sLogs>>
         [] t.pc = "logs" ->
              /\ sLogs' = data
              /\ sTicks' = sTicks \ {t}
              /\ out' = [Quiet("useScraper", "resolved") EXCEPT
                            !.req = t, !.res = data, !.before = sLogs,
                            !.writes = {"logs"},
                            !.tickChanged = (t.changed \/ sLogs # data),
                            !.late = (sPhase = "torn")]
              /\ UNCHANGED <<sStatus, sMetrics>>
    /\ sApplied' = [sApplied EXCEPT ![t.pc] = t.seq]
    /\ UNCHANGED <<sPhase, sNextTick>>

\* The callback's catch block ("Silent polling fail"): the rest of the tick is skipped.
scraperRejected(t, err) ==
    /\ UNCHANGED <<hookVars, actVars>>
    /\ t \in sTicks
    /\ sTicks' = sTicks \ {t}
    /\ out' = [Quiet("useScraper", "rejected") EXCEPT
                  !.req = t, !.res = err, !.toasts = Interceptor(err),
                  !.tickChanged = t.changed, !.late = (sPhase = "torn")]
    /\ UNCHANGED <<sPhase, sStatus, sMetrics, sLogs, sNextTick, sApplied>>

\* The cleanup: clearInterval(interval).
scraperUnmount ==
    /\ UNCHANGED <<hookVars, actVars>>
    /\ sPhase = "mounted"
    /\ sPhase' = "torn"
    /\ out' = Quiet("useScraper", "cleanup")
    /\ UNCHANGED <<sStatus, sMetrics, sLogs, sTicks, sNextTick, sApplied>>

-----------------------------------------------------------------------------
(* The keyword list and the requests of services/api.js that concern it    *)

Modes == {"add", "sync", "replace"}

Actions == {"start", "stop", "pause", "resume"}

Resets == {"reset-failed", "reset-skipped", "reset-all"}

File == "keywords.xlsx"

WidgetLimit == 10

DefaultLimit == 100

Pages == 1 .. MaxPage

InitPagination == [page |-> 1, limit |-> DefaultLimit, total |-> 0, total_pages |-> 1]

Kw(id, text, status) == [id |-> id, text |-> text, city |-> "", status |-> status]

ItemLists == {<<>>, <<Kw(1, "pizza", "DONE"), Kw(2, "sushi", "FAILED")>>}

\* The bodies the backend may answer GET /keywords?page=&limit= with: the
\* documented shape, and the same shape with its items field missing.
KeywordBodies(page, limit) ==
    {[items |-> it, page |-> page, limit |-> limit,
      total |-> (page - 1) * limit + Len(it), total_pages |-> page] : it \in ItemLists}
    \cup {[page |-> page, limit |-> limit, total |-> 0, total_pages |-> 1]}

\* A value held in React state whose kind differs between writes: an array,
\* or any other object.
JsArray(xs) == [isArray |-> TRUE, val |-> xs]

JsObject(o) == [isArray |-> FALSE, val |-> o]

\* The structured results of an upload or a reset.
Results ==
    {[success |-> TRUE, message |-> "2 keywords processed"],
     [success |-> FALSE, message |-> "No valid rows"]}

getKeywords(page, limit, status) ==
    GetWith("/keywords",
            IF status # "" THEN [page |-> page, limit |-> limit, status |-> status]
                           ELSE [page |-> page, limit |-> limit])

uploadKeywords(file, mode) ==
    Post("/keywords/upload", {<<"file", file>>, <<"mode", mode>>})

resetKeywords(kind) ==
    Post(CASE kind = "reset-failed" -> "/keywords/reset-failed"
           [] kind = "reset-skipped" -> "/keywords/reset-skipped"
           [] kind = "reset-all" -> "/keywords/reset-all", {})

controlScraper(action) ==
    Post(CASE action = "start" -> "/control/start"
           [] action = "stop" -> "/control/stop"
           [] action = "pause" -> "/control/pause"
           [] action = "resume" -> "/control/resume", {})

\* A call awaiting its response.  arg is the mode or the action it was
\* made for; page and limit are the arguments or the pagination it closed over.
NewCall(id, src, kind, arg, page, limit) ==
    [id |-> id, src |-> src, kind |-> kind, arg |-> arg, page |-> page, limit |-> limit]

-----------------------------------------------------------------------------
(* hooks/useKeywords.js and components/KeywordManager.jsx                  *)

kwState == <<keywords, loading, pagination>>

otherThanKw == <<pollVars, view, vPhase, sKeywords, uploadMode, backendVars>>

\* fetchKeywords up to its await.
fetchKeywords(page, limit) ==
    /\ nextId < MaxCalls
    /\ nextId' = nextId + 1
    /\ loading' = TRUE
    /\ calls' = calls \cup {NewCall(nextId + 1, "useKeywords", "fetch", "", page, limit)}
    /\ out' = [Quiet("useKeywords", "fetchKeywords") EXCEPT
                  !.reqs = <<getKeywords(page, limit, "")>>, !.writes = {"loading"}]
    /\ UNCHANGED <<keywords, pagination, otherThanKw>>

\* data.items || []
Items(data) == IF "items" \in DOMAIN data THEN data.items ELSE <<>>

PaginationKeepsTotal(data) ==
    [pagination EXCEPT !.page = data.page, !.limit = data.limit]

\* The pagination setPagination receives after a response.
PaginationOf(data) ==
    [page |-> data.page, limit |-> data.limit,
     total |-> data.total, total_pages |-> data.total_pages]

\* fetchKeywords after a successful await, with its finally block.
keywordsResolved(c, data) ==
    /\ c \in calls /\ c.src = "useKeywords" /\ c.kind = "fetch"
    /\ calls' = calls \ {c}
    /\ keywords' = Items(data)
    /\ pagination' = PaginationOf(data)
    /\ loading' = FALSE
    /\ out' = [Quiet("useKeywords", "keywordsResolved") EXCEPT
                  !.req = c, !.res = data,
                  !.writes = {"keywords", "pagination", "loading"}]
    /\ UNCHANGED <<nextId, otherThanKw>>

\* fetchKeywords' catch block, with its finally block.
keywordsRejected(c, err) ==
    /\ c \in calls /\ c.src = "useKeywords" /\ c.kind = "fetch"
    /\ calls' = calls \ {c}
    /\ loading' = FALSE
    /\ out' = [Quiet("useKeywords", "keywordsRejected") EXCEPT
                  !.req = c, !.res = err,
                  !.toasts = Interceptor(err) \o <<Toast("error", <<"Failed to fetch keywords">>)>>,
                  !.writes = {"loading"}]
    /\ UNCHANGED <<keywords, pagination, nextId, otherThanKw>>

\* uploadFile up to its await.  The call number after its own is kept for
\* the refetch that follows a success.
uploadFile(file, mode) ==
    /\ nextId + 2 <= MaxCalls
    /\ nextId' = nextId + 2
    /\ calls' = calls \cup {NewCall(nextId + 1, "useKeywords", "upload", mode,
                                    pagination.page, pagination.limit)}
    /\ out' = [Quiet("KeywordManager", "upload") EXCEPT
                  !.arg = mode, !.reqs = <<uploadKeywords(file, mode)>>]
    /\ UNCHANGED <<kwState, otherThanKw>>

\* KeywordManager.handleFileUpload.
kmHandleFileUpload(hasFile) ==
    IF hasFile
    THEN uploadFile(File, "add")
    ELSE /\ out' = Quiet("KeywordManager", "upload")
         /\ UNCHANGED <<kwState, calls, nextId, otherThanKw>>

\* The page a reset refetches, and the page an upload refetches.
ResetRefetchPage(c) == c.page

UploadRefetchPage(c) == 1

\* uploadFile after a successful await.
uploadResolved(c, res) ==
    /\ c \in calls /\ c.src = "useKeywords" /\ c.kind = "upload"
    /\ loading' = TRUE
    /\ calls' = (calls \ {c}) \cup
                {NewCall(c.id + 1, "useKeywords", "fetch", "", UploadRefetchPage(c), c.limit)}
    /\ out' = [Quiet("useKeywords", "uploadResolved") EXCEPT
                  !.req = c, !.res = res,
                  !.toasts = <<Toast("success", <<res.message>>)>>,
                  !.reqs = <<getKeywords(UploadRefetchPage(c), c.limit, "")>>,
                  !.writes = {"loading"}, !.result = "true"]
    /\ UNCHANGED <<keywords, pagination, nextId, otherThanKw>>

\* The requests the catch block of an upload sends for the failed call c.
UploadRetriesOnce(c, err) == <<uploadKeywords(File, c.arg)>>

UploadRetries(c, err) == <<>>

\* uploadFile's catch block.
uploadRejected(c, err) ==
    /\ c \in calls /\ c.src = "useKeywords" /\ c.kind = "upload"
    /\ calls' = calls \ {c}
    /\ keywords' = keywords
    /\ out' = [Quiet("useKeywords", "uploadRejected") EXCEPT
                  !.req = c, !.res = err,
                  !.toasts = Interceptor(err) \o
                             <<Toast("error", <<Or(err.detail, "Upload failed")>>)>>,
                  !.reqs = UploadRetries(c, err),
                  !.result = "false"]
    /\ UNCHANGED <<loading, pagination, nextId, otherThanKw>>

\* resetFailed / resetSkipped / resetAll up to the await.
reset(kind, asked) ==
    /\ nextId + 2 <= MaxCalls
    /\ nextId' = nextId + 2
    /\ calls' = calls \cup {NewCall(nextId + 1, "useKeywords", kind, "",
                                    pagination.page, pagination.limit)}
    /\ out' = [Quiet("KeywordManager", "reset") EXCEPT
                  !.arg = kind, !.confirm = asked,
                  !.reqs = <<resetKeywords(kind)>>]
    /\ UNCHANGED <<kwState, otherThanKw>>

resetFailed == reset("reset-failed", "none")

resetSkipped == reset("reset-skipped", "none")

\* KeywordManager's Reset All button: window.confirm, then resetAll.
kmResetAll(answer) ==
    IF answer
    THEN reset("reset-all", "yes")
    ELSE /\ out' = [Quiet("KeywordManager", "reset") EXCEPT
                       !.arg = "reset-all", !.confirm = "no"]
         /\ UNCHANGED <<kwState, calls, nextId, otherThanKw>>

\* A reset after a successful await.
resetResolved(c, res) ==
    /\ c \in calls /\ c.src = "useKeywords" /\ c.kind \in Resets
    /\ loading' = TRUE
    /\ calls' = (calls \ {c}) \cup
                {NewCall(c.id + 1, "useKeywords", "fetch", "", ResetRefetchPage(c), c.limit)}
    /\ out' = [Quiet("useKeywords", "resetResolved") EXCEPT
                  !.req = c, !.res = res,
                  !.toasts = <<Toast("success", <<res.message>>)>>,
                  !.reqs = <<getKeywords(ResetRefetchPage(c), c.limit, "")>>,
                  !.writes = {"loading"}]
    /\ UNCHANGED <<keywords, pagination, nextId, otherThanKw>>

ResetFailureText(kind) ==
    CASE kind = "reset-failed" -> "Failed to reset failed keywords"
      [] kind = "reset-skipped" -> "Failed to reset skipped keywords"
      [] kind = "reset-all" -> "Failed to reset all keywords"

\* A reset's catch block.
resetRejected(c, err) ==
    /\ c \in calls /\ c.src = "useKeywords" /\ c.kind \in Resets
    /\ calls' = calls \ {c}
    /\ keywords' = keywords
    /\ out' = [Quiet("useKeywords", "resetRejected") EXCEPT
                  !.req = c, !.res = err,
                  !.toasts = Interceptor(err) \o <<Toast("error", <<ResetFailureText(c.kind)>>)>>]
    /\ UNCHANGED <<loading, pagination, nextId, otherThanKw>>

-----------------------------------------------------------------------------
(* useScraper (hooks/useScraper): fetchKeywords, uploadKeywords, control;  *)
(* pages/Keywords.jsx; pages/Dashboard.jsx; ControlPanel                   *)

otherThanPage == <<pollVars, view, vPhase, kwState, backendVars>>

\* The KeywordManager widget is on screen: it is the view followed and it
\* has not been unmounted.
OnWidget == view = "KeywordManager" /\ vPhase = "mounted"

\* The Keywords page is on screen: it is the view followed and it has not
\* been unmounted.
OnPage == view = "Keywords" /\ vPhase = "mounted"

\* What the unmount of the page leaves alone.
pageKept ==
    <<view, gen, logLimit, hookVal, hookErr, isLoading, inflight, nextSeq, applied,
      sStatus, sMetrics, sLogs, sTicks, sNextTick, sApplied, kwState, backendVars>>

\* React unmounts the page that is on screen: the cleanup of every mounted
\* polling effect runs (clearInterval, isMounted = false).
unmountPage ==
    /\ vPhase' = "torn"
    /\ phase' = [h \in Hooks |-> IF phase[h] = "mounted" THEN "torn" ELSE phase[h]]
    /\ timers' = [h \in Hooks |-> IF phase[h] = "mounted" THEN Cleared(h) ELSE timers[h]]
    /\ sPhase' = IF sPhase = "mounted" THEN "torn" ELSE sPhase

\* The mode selector's onChange.
setUploadMode(m) ==
    /\ m \in Modes
    /\ uploadMode' = m
    /\ out' = [Quiet("Keywords", "setUploadMode") EXCEPT !.arg = m]
    /\ UNCHANGED <<sKeywords, calls, nextId, otherThanPage>>

\* useScraper.fetchKeywords up to its await.
scraperFetchKeywords ==
    /\ nextId < MaxCalls
    /\ nextId' = nextId + 1
    /\ calls' = calls \cup {NewCall(nextId + 1, "useScraper", "fetch", "", 0, 0)}
    /\ out' = [Quiet("useScraper", "fetchKeywords") EXCEPT !.reqs = <<Get("/keywords")>>]
    /\ UNCHANGED <<sKeywords, uploadMode, otherThanPage>>

\* Whether the render of the Keywords page throws for the keywords it is
\* given: keywords.filter(...) is a TypeError unless keywords is an array.
RenderThrows(kw) == ~kw.isArray

\* The page holds keywords that its next render throws on: setKeywords has
\* been called and React has not rendered the update yet.
RenderPending == OnPage /\ RenderThrows(sKeywords)

\* useScraper.fetchKeywords after a successful await: setKeywords(res.data).
\* The continuation is no React event handler, so when React renders the
\* update depends on the root the entry point creates: a concurrent root
\* renders it in a later task (sync = FALSE) and the continuation ends
\* here; a legacy root renders it inside setKeywords (sync = TRUE), and a
\* render that throws is rethrown to the try block, whose catch raises the
\* notification.  A legacy root never has a render pending.
scraperKeywordsResolved(c, data, sync) ==
    /\ c \in calls /\ c.src = "useScraper" /\ c.kind = "fetch"
    /\ sync => ~RenderPending
    /\ calls' = calls \ {c}
    /\ sKeywords' = JsObject(data)
    /\ IF sync /\ OnPage /\ RenderThrows(JsObject(data))
       THEN /\ unmountPage
            /\ out' = [Quiet("useScraper", "keywordsResolved") EXCEPT
                          !.req = c, !.res = data, !.writes = {"keywords"},
                          !.result = "TypeError",
                          !.toasts = <<Toast("error", <<"Failed to fetch keywords">>)>>]
       ELSE /\ UNCHANGED <<vPhase, phase, timers, sPhase>>
            /\ out' = [Quiet("useScraper", "keywordsResolved") EXCEPT
                          !.req = c, !.res = data, !.writes = {"keywords"}]
    /\ UNCHANGED <<pageKept, uploadMode, nextId>>

\* The Keywords page renders the keywords it holds and keywords.filter
\* throws.  No error boundary catches it, so React unmounts the tree.
KeywordsRender ==
    /\ RenderPending
    /\ unmountPage
    /\ out' = [Quiet("Keywords", "render") EXCEPT !.result = "TypeError"]
    /\ UNCHANGED <<pageKept, sKeywords, uploadMode, calls, nextId>>

\* useScraper.fetchKeywords' catch block.
scraperKeywordsRejected(c, err) ==
    /\ c \in calls /\ c.src = "useScraper" /\ c.kind = "fetch"
    /\ calls' = calls \ {c}
    /\ out' = [Quiet("useScraper", "keywordsRejected") EXCEPT
                  !.req = c, !.res = err,
                  !.toasts = Interceptor(err) \o <<Toast("error", <<"Failed to fetch keywords">>)>>]
    /\ UNCHANGED <<sKeywords, uploadMode, nextId, otherThanPage>>

\* The multipart form useScraper.uploadKeywords(file) builds: its caller's
\* second argument, the mode, has no parameter to land in.
scraperUploadForm(file, mode) == {<<"file", file>>}

\* Whether handleFileUpload goes on to upload: the confirmation gate.
ProceedsAlways(mode, answer) == TRUE

Proceeds(mode, answer) == mode # "replace" \/ answer

\* Keywords.handleFileUpload up to the await inside useScraper.uploadKeywords.
\* The two call numbers after its own are kept for the refetches of a success.
handleFileUpload(hasFile, answer) ==
    LET asked == IF hasFile /\ uploadMode = "replace"
                 THEN (IF answer THEN "yes" ELSE "no") ELSE "none"
    IN  IF hasFile /\ Proceeds(uploadMode, answer)
        THEN /\ nextId + 3 <= MaxCalls
             /\ nextId' = nextId + 3
             /\ calls' = calls \cup
                   {NewCall(nextId + 1, "useScraper", "upload", uploadMode, 0, 0)}
             /\ out' = [Quiet("Keywords", "upload") EXCEPT
                           !.arg = uploadMode, !.confirm = asked,
                           !.reqs = <<Post("/keywords/upload",
                                           scraperUploadForm(File, uploadMode))>>]
             /\ UNCHANGED <<sKeywords, uploadMode, otherThanPage>>
        ELSE /\ out' = [Quiet("Keywords", "upload") EXCEPT
                           !.arg = uploadMode, !.confirm = asked]
             /\ UNCHANGED <<sKeywords, uploadMode, calls, nextId, otherThanPage>>

\* useScraper.uploadKeywords after a successful await (a fetchKeywords it does
\* not await, then {success: true, message}), and handleFileUpload after it
\* (the alert, then a fetchKeywords it awaits).
scraperUploadResolved(c, res) ==
    /\ c \in calls /\ c.src = "useScraper" /\ c.kind = "upload"
    /\ calls' = (calls \ {c}) \cup
                {NewCall(c.id + 1, "useScraper", "fetch", "", 0, 0),
                 NewCall(c.id + 2, "useScraper", "fetch", "", 0, 0)}
    /\ out' = [Quiet("Keywords", "uploadResolved") EXCEPT
                  !.req = c, !.res = res,
                  !.toasts = <<Toast("alert", <<"[ok] ", res.message>>)>>,
                  !.reqs = <<Get("/keywords"), Get("/keywords")>>,
                  !.result = "success"]
    /\ UNCHANGED <<sKeywords, uploadMode, nextId, otherThanPage>>

\* useScraper.uploadKeywords' catch block ({success: false, message}), and
\* handleFileUpload after it (the failure alert).
scraperUploadRejected(c, err) ==
    /\ c \in calls /\ c.src = "useScraper" /\ c.kind = "upload"
    /\ calls' = calls \ {c}
    /\ out' = [Quiet("Keywords", "uploadRejected") EXCEPT
                  !.req = c, !.res = err,
                  !.toasts = Interceptor(err) \o
                      <<Toast("alert", <<"[x] Upload failed: ", Or(err.detail, err.message)>>)>>,
                  !.reqs = UploadRetries(c, err),
                  !.result = "failure"]
    /\ UNCHANGED <<sKeywords, uploadMode, nextId, otherThanPage>>

\* The control buttons pages/Dashboard.jsx enables for a status.
DashboardEnabled(status) ==
    {a \in Actions :
        \/ a = "start" /\ status # "running"
        \/ a = "stop" /\ status # "idle"
        \/ a = "resume" /\ status = "paused"
        \/ a = "pause" /\ status = "running"}

PanelEnabledAsDashboard(status, busy) == DashboardEnabled(status)

\* The control buttons ControlPanel enables for the status it is given.
PanelEnabled(status, busy) ==
    LET isRunning == status = "running"
        isPaused == status = "paused"
        isIdle == status \in {"idle", "stopped", "error"}
    IN  IF busy THEN {}
        ELSE {a \in Actions :
                 \/ a = "start" /\ isIdle
                 \/ a = "resume" /\ isPaused
                 \/ a = "pause" /\ ~isPaused /\ isRunning
                 \/ a = "stop" /\ ~isIdle}

\* The status a control handler leaves displayed when it sends its command.
StatusAssumed(action, status) ==
    CASE action = "start" -> "running"
      [] action = "stop" -> "stopped"
      [] action = "pause" -> "paused"
      [] action = "resume" -> "running"

StatusKept(action, status) == status

\* useScraper.control (src = "useScraper", from the Dashboard page's buttons)
\* and ControlPanel.handleControl (src = "ControlPanel"), up to the await.
control(src, action) ==
    /\ view = (IF src = "ControlPanel" THEN "ControlPanel" ELSE "Dashboard")
    /\ vPhase = "mounted"
    /\ action \in (IF src = "ControlPanel"
                    THEN PanelEnabled(hookVal["useScraperStatus"], isLoading)
                    ELSE DashboardEnabled(sStatus))
    /\ nextId < MaxCalls
    /\ nextId' = nextId + 1
    /\ calls' = calls \cup {NewCall(nextId + 1, src, "control", action, 0, 0)}
    /\ hookVal' = [hookVal EXCEPT !["useScraperStatus"] =
                       IF src = "ControlPanel" THEN StatusKept(action, @) ELSE @]
    /\ sStatus' = IF src = "useScraper" THEN StatusKept(action, sStatus) ELSE sStatus
    /\ out' = [Quiet(src, "control") EXCEPT
                  !.arg = action, !.reqs = <<controlScraper(action)>>]
    /\ UNCHANGED <<phase, gen, timers, logLimit, hookErr, isLoading, inflight, nextSeq, applied,
                   sPhase, sMetrics, sLogs, sTicks, sNextTick, sApplied,
                   view, vPhase, sKeywords, uploadMode, kwState, backendVars>>

\* Either handler after a successful await.
controlResolved(c) ==
    /\ c \in calls /\ c.kind = "control"
    /\ calls' = calls \ {c}
    /\ out' = [Quiet(c.src, "controlResolved") EXCEPT
                  !.req = c, !.res = [status |-> 200],
                  !.toasts = <<Toast("success",
                                 IF c.src = "ControlPanel"
                                 THEN <<"Sent command: ", c.arg>>
                                 ELSE <<"Scraper ", c.arg, " command sent">>)>>]
    /\ UNCHANGED <<sKeywords, uploadMode, nextId, otherThanPage>>

\* Either handler's catch block.
controlRejected(c, err) ==
    /\ c \in calls /\ c.kind = "control"
    /\ calls' = calls \ {c}
    /\ out' = [Quiet(c.src, "controlRejected") EXCEPT
                  !.req = c, !.res = err,
                  !.toasts = Interceptor(err) \o
                             <<Toast("error", <<"Failed to ", c.arg, " scraper">>)>>]
    /\ UNCHANGED <<sKeywords, uploadMode, nextId, otherThanPage>>

\* The tabs of the sidebar, and the tab a view is rendered under.
Tabs == {"dashboard", "keywords", "settings"}

TabOf(v) == IF v = "Keywords" THEN "keywords" ELSE "dashboard"

\* The onClick of a sidebar item: App renders the page of the tab chosen
\* and unmounts the page of any other.
setActiveTab(tab) ==
    /\ vPhase = "mounted"
    /\ tab \in Tabs
    /\ IF tab = TabOf(view)
       THEN UNCHANGED <<vPhase, phase, timers, sPhase>>
       ELSE unmountPage
    /\ out' = [Quiet("App", "setActiveTab") EXCEPT !.arg = tab]
    /\ UNCHANGED <<pageKept, sKeywords, uploadMode, calls, nextId>>

-----------------------------------------------------------------------------
(* The polling specification: one poller instance is followed from the     *)
(* mount of its view to after its teardown.                                *)

vars == <<pollVars, actVars, out>>

Init ==
    /\ view \in Hooks \cup {"useScraper"}
    /\ vPhase = "none"
    /\ phase = [h \in Hooks |-> "init"]
    /\ gen = [h \in Hooks |-> 0]
    /\ timers = [h \in Hooks |-> IF phase[h] = "mounted" THEN {gen[h]} ELSE {}]
    /\ logLimit = DefaultLogLimit
    /\ hookVal = [h \in Hooks |-> InitVal(h)]
    /\ hookErr = [h \in Hooks |-> Null]
    /\ isLoading = TRUE
    /\ inflight = [h \in Hooks |-> {}]
    /\ nextSeq = [h \in Hooks |-> 0]
    /\ applied = [h \in Hooks |-> 0]
    /\ sPhase = "init"
    /\ sStatus = "idle"
    /\ sMetrics = InitMetrics
    /\ sLogs = <<>>
    /\ sTicks = {}
    /\ sNextTick = 0
    /\ sApplied = [pc \in {"status", "metrics", "logs"} |-> 0]
    /\ sKeywords = JsArray(<<>>)
    /\ keywords = <<>>
    /\ loading = FALSE
    /\ pagination = InitPagination
    /\ uploadMode = "add"
    /\ calls = {}
    /\ nextId = 0
    /\ records = {}
    /\ nextRecId = 0
    /\ out = Quiet("App", "render")

Next ==
    \/ \E h \in Hooks : effectRun(h)
    \/ \E h \in Hooks : \E l \in LogLimits : effectRerun(h, l)
    \/ \E h \in Hooks : intervalTick(h)
    \/ \E h \in Hooks : \E r \in inflight[h] : \E data \in Responses(h) :
          fetchResolved(h, r, data)
    \/ \E h \in Hooks : \E r \in inflight[h] : \E err \in Errors :
          fetchRejected(h, r, err)
    \/ \E h \in Hooks : effectCleanup(h)
    \/ scraperMount
    \/ scraperTick
    \/ \E t \in sTicks : \E data \in ScraperResponses(t.pc) : scraperResolved(t, data)
    \/ \E t \in sTicks : \E err \in Errors : scraperRejected(t, err)
    \/ scraperUnmount

Spec == Init /\ [][Next]_vars

-----------------------------------------------------------------------------
(* The specification of the user-initiated actions, next to the poll of   *)
(* the page they are on.  It starts with the followed view on screen: the  *)
(* poll of its page has had all but one of its polls answered, the last    *)
(* one by a /status response (and, for the combined poll, a failure on     *)
(* /metrics).                                                              *)

Views == {"KeywordManager", "Keywords", "ControlPanel", "Dashboard"}

\* The polling hook of the page a view is on whose status is followed.
PollerOf(v) ==
    IF v \in {"ControlPanel", "KeywordManager"} THEN "useScraperStatus" ELSE "useScraper"

InitActions ==
    /\ view \in Views
    /\ vPhase = "mounted"
    /\ \E s \in Statuses :
          /\ hookVal = [h \in Hooks |-> IF h = "useScraperStatus" /\ view = "ControlPanel"
                                        THEN s ELSE InitVal(h)]
          /\ sStatus = IF view = "Dashboard" THEN s ELSE "idle"
    /\ phase = [h \in Hooks |-> IF h = PollerOf(view) THEN "mounted" ELSE "init"]
    /\ gen = [h \in Hooks |-> IF h = PollerOf(view) THEN 1 ELSE 0]
    /\ timers = [h \in Hooks |-> IF phase[h] = "mounted" THEN {gen[h]} ELSE {}]
    /\ logLimit = DefaultLogLimit
    /\ hookErr = [h \in Hooks |-> Null]
    /\ isLoading = (PollerOf(view) # "useScraperStatus")
    /\ inflight = [h \in Hooks |-> {}]
    /\ nextSeq = [h \in Hooks |-> IF h = PollerOf(view) THEN MaxFetch - 1 ELSE 0]
    /\ applied = [h \in Hooks |-> IF h = PollerOf(view) THEN MaxFetch - 1 ELSE 0]
    /\ sPhase = IF PollerOf(view) = "useScraper" THEN "mounted" ELSE "init"
    /\ sMetrics = InitMetrics
    /\ sLogs = <<>>
    /\ sTicks = {}
    /\ sNextTick = IF PollerOf(view) = "useScraper" THEN MaxTicks - 1 ELSE 0
    /\ sApplied = [pc \in {"status", "metrics", "logs"} |->
                      IF pc = "status" /\ PollerOf(view) = "useScraper"
                      THEN MaxTicks - 1 ELSE 0]
    /\ sKeywords = JsArray(<<>>)
    /\ keywords = <<>>
    /\ loading = FALSE
    /\ pagination = InitPagination
    /\ uploadMode = "add"
    /\ calls = {}
    \* An upload takes three call numbers, a control command one.
    /\ nextId = IF view \in {"ControlPanel", "Dashboard"} THEN MaxCalls - 2 ELSE MaxCalls - 3
    /\ records = {}
    /\ nextRecId = 0
    /\ out = Quiet("App", "render")

NextActions ==
    \/ \E page \in Pages : OnWidget /\ fetchKeywords(page, WidgetLimit)
    \/ \E c \in calls : \E data \in KeywordBodies(c.page, c.limit) : keywordsResolved(c, data)
    \/ \E c \in calls : \E err \in Errors : keywordsRejected(c, err)
    \/ \E hasFile \in BOOLEAN : OnWidget /\ kmHandleFileUpload(hasFile)
    \/ \E c \in calls : \E res \in Results : uploadResolved(c, res)
    \/ \E c \in calls : \E err \in Errors : uploadRejected(c, err)
    \/ OnWidget /\ resetFailed
    \/ OnWidget /\ resetSkipped
    \/ \E answer \in BOOLEAN : OnWidget /\ kmResetAll(answer)
    \/ \E c \in calls : \E res \in Results : resetResolved(c, res)
    \/ \E c \in calls : \E err \in Errors : resetRejected(c, err)
    \/ \E m \in Modes : OnPage /\ setUploadMode(m)
    \/ OnPage /\ scraperFetchKeywords
    \/ \E c \in calls : \E data \in KeywordBodies(1, DefaultLimit) : \E sync \in BOOLEAN :
          scraperKeywordsResolved(c, data, sync)
    \/ KeywordsRender
    \/ \E c \in calls : \E err \in Errors : scraperKeywordsRejected(c, err)
    \/ \E hasFile, answer \in BOOLEAN : OnPage /\ handleFileUpload(hasFile, answer)
    \/ \E c \in calls : \E res \in Results : scraperUploadResolved(c, res)
    \/ \E c \in calls : \E err \in Errors : scraperUploadRejected(c, err)
    \/ \E src \in {"useScraper", "ControlPanel"} : \E action \in Actions : control(src, action)
    \/ \E c \in calls : controlResolved(c)
    \/ \E c \in calls : \E err \in Errors : controlRejected(c, err)
    \/ intervalTick("useScraperStatus")
    \/ \E r \in inflight["useScraperStatus"] : \E data \in Responses("useScraperStatus") :
          fetchResolved("useScraperStatus", r, data)
    \/ \E r \in inflight["useScraperStatus"] : \E err \in Errors :
          fetchRejected("useScraperStatus", r, err)
    \/ scraperTick
    \/ \E t \in sTicks : \E data \in ScraperResponses(t.pc) : scraperResolved(t, data)
    \/ \E t \in sTicks : \E err \in Errors : scraperRejected(t, err)
    \/ \E tab \in Tabs : setActiveTab(tab)

SpecActions == InitActions /\ [][NextActions]_vars

-----------------------------------------------------------------------------
(* Claims about the pollers, checked under Spec.                           *)

Pollers == Hooks \cup {"useScraper"}

PollFailed == out.op = "rejected" /\ out.src \in Pollers

\* C3 (as stated): a tick whose fetch fails has left status, metrics and logs
\* exactly as they were before the tick: the failed tick changed none of them.
C3_FailedTickChangedNothing == PollFailed => ~out.tickChanged

\* C3 (amended): the step that handles a failed fetch changes none of the held
\* status, metrics and logs of any poller, so a failure never blanks them; what
\* the same tick applied before the failing read stays applied.
C3_FailureKeepsValues ==
    [][(out'.op = "rejected" /\ out'.src \in Pollers) =>
          /\ hookVal' = hookVal
          /\ <<sStatus, sMetrics, sLogs>>' = <<sStatus, sMetrics, sLogs>>]_vars

\* A fetch has failed while its poller displayed a value received earlier.
C3_Witness ==
    /\ PollFailed
    /\ \/ out.src \in Hooks /\ hookVal[out.src] # InitVal(out.src)
       \/ out.src = "useScraper" /\ out.tickChanged

\* C4: a response that resolves after the consuming view has been torn down
\* performs no write to status, metrics, logs, error or loading state.
C4_LateResponseDiscarded == out.late => out.writes = {}

\* C5: within one poller the response of an earlier-issued fetch is never
\* applied after the response of a later-issued fetch (latest issued wins).
C5_LatestIssuedWins ==
    [][/\ \A h \in Hooks : applied'[h] >= applied[h]
       /\ \A pc \in DOMAIN sApplied : sApplied'[pc] >= sApplied[pc]]_vars

\* C9: a failed poll tick of any error class raises no user-visible notification.
C9_PollFailureSilent == PollFailed => out.toasts = <<>>

\* C10: after the teardown of its view a poller issues no further poll request.
C10_NoRequestAfterTeardown == out.late => out.reqs = <<>>

-----------------------------------------------------------------------------
(* Claims about the user-initiated actions, checked under SpecActions.     *)

IsUpload(r) == r.method = "POST" /\ r.path = "/keywords/upload"

UploadsSent == {out.reqs[i] : i \in {j \in DOMAIN out.reqs : IsUpload(out.reqs[j])}}

\* C1: no upload request with mode replace is sent unless the user has just
\* confirmed; on the Keywords page a declined confirmation sends no request at
\* all; the KeywordManager widget uploads with mode add only.
C1_ReplaceNeedsConfirmation ==
    /\ \A r \in UploadsSent : <<"mode", "replace">> \in r.form => out.confirm = "yes"
    /\ (out.src = "Keywords" /\ out.op = "upload" /\ out.arg = "replace"
          /\ out.confirm # "yes") => out.reqs = <<>>
    /\ out.src = "KeywordManager" => \A r \in UploadsSent : <<"mode", "add">> \in r.form

\* A file was chosen on the Keywords page in replace mode and the user declined.
C1_Witness ==
    /\ out.src = "Keywords" /\ out.op = "upload"
    /\ out.arg = "replace" /\ out.confirm = "no" /\ out.reqs = <<>>

\* C2: every upload request carries the file and a mode field in
\* {add, sync, replace} that equals the mode selected at the call site.
C2_UploadCarriesSelectedMode ==
    \A r \in UploadsSent :
        /\ <<"file", File>> \in r.form
        /\ out.arg \in Modes
        /\ <<"mode", out.arg>> \in r.form

FinishedOk(ops) == out.op \in ops /\ out.res.success

\* C6: after an upload or a reset has completed successfully in useKeywords the
\* keyword list is refetched for page 1.
C6_RefetchesPageOne ==
    (out.src = "useKeywords" /\ FinishedOk({"uploadResolved", "resetResolved"})) =>
        /\ Len(out.reqs) = 1
        /\ out.reqs[1].path = "/keywords"
        /\ out.reqs[1].params.page = 1

IsSuccessMessage(t) == t.level = "success" \/ (t.level = "alert" /\ t.text[1] = "[ok] ")

IsFailureMessage(t) == t.level = "error" \/ (t.level = "alert" /\ t.text[1] # "[ok] ")

Shown(P(_)) == \E i \in DOMAIN out.toasts : P(out.toasts[i])

\* C7: an upload or reset whose structured result has success = false is
\* handled as an error: an error message and no success message is shown, the
\* call does not return true or success: true, no view state is written.
C7_NonSuccessIsError ==
    (out.op \in {"uploadResolved", "resetResolved"} /\ ~out.res.success) =>
        /\ Shown(IsFailureMessage)
        /\ ~Shown(IsSuccessMessage)
        /\ out.result \notin {"true", "success"}
        /\ out.writes = {}

ViewState == <<keywords, pagination, sKeywords, hookVal, sStatus, sMetrics>>

ActionIssued(o) == o.op \in {"upload", "reset", "control"}

ActionFailed(o) == o.op \in {"uploadRejected", "resetRejected", "controlRejected"}

\* C8: a user-initiated action (upload, control, reset) changes no view state
\* (keywords, pagination, status, metrics) when it issues its request, and when
\* the request fails, with whatever error class, a failure message is shown
\* and the view state is left as it was.
C8_NoOptimisticStateAndFailureShown ==
    [][(ActionIssued(out') \/ ActionFailed(out')) =>
          /\ ViewState' = ViewState
          /\ ActionFailed(out') =>
                \E i \in DOMAIN out'.toasts : IsFailureMessage(out'.toasts[i])]_vars

\* A user-initiated call has failed while the view showed data or a status
\* received earlier.
C8_Witness ==
    /\ ActionFailed(out)
    /\ \/ keywords # <<>>
       \/ out.src = "ControlPanel" /\ hookVal["useScraperStatus"] = "running"

-----------------------------------------------------------------------------
(* Claims about the pollers' scheduling, checked under Spec.               *)

\* C11 (as stated): each poller has at most one network call in flight at any
\* time, however long the backend takes to answer.
C11_OneInFlight ==
    /\ \A h \in Hooks : Cardinality(inflight[h]) <= 1
    /\ Cardinality(sTicks) <= 1

\* C11 (amended): every timer fire (and every effect run) of a poller starts
\* exactly one network call, whether or not the previous one has been answered,
\* and no other step of a polling hook starts one; a callback of the combined
\* poll sends at most one request per step.
C11_OneCallPerTick ==
    [][/\ \A h \in Hooks :
             /\ Cardinality(inflight'[h]) <= Cardinality(inflight[h]) + 1
             /\ (out'.src = h /\ out'.op \in {"effect", "tick", "rerun"}) =>
                    /\ Len(out'.reqs) = 1
                    /\ Cardinality(inflight'[h] \ inflight[h]) = 1
             /\ (out'.src = h /\ out'.op \notin {"effect", "tick", "rerun"}) =>
                    /\ out'.reqs = <<>>
                    /\ inflight'[h] \subseteq inflight[h]
       /\ Cardinality(sTicks') <= Cardinality(sTicks) + 1
       /\ out'.src = "useScraper" => Len(out'.reqs) <= 1]_vars

\* The timer of a polling hook has fired while the previous fetch was still
\* unanswered: it has started one more call and two are in flight.
C11_Witness ==
    /\ out.src \in Hooks /\ out.op = "tick"
    /\ Len(out.reqs) = 1
    /\ Cardinality(inflight[out.src]) = 2

Reads == {"status", "metrics", "logs"}

\* The reads an interval callback of the combined poll has sent so far.
ReadsSent(t) ==
    CASE t.pc = "status" -> {"status"}
      [] t.pc = "metrics" -> {"status", "metrics"}
      [] t.pc = "logs" -> Reads

\* C12: the status, metrics and logs reads of a tick do not await each other:
\* while a read of a tick is unanswered, and when it has failed, the other
\* reads of that tick have been sent all the same.
C12_ReadsIndependent ==
    /\ \A t \in sTicks : ReadsSent(t) = Reads
    /\ (out.src = "useScraper" /\ out.op = "rejected") => ReadsSent(out.req) = Reads

-----------------------------------------------------------------------------
(* Claims about the values the pollers hold, checked under Spec.           *)

\* C13: an applied /logs or /metrics response fully replaces the previous
\* snapshot: the held value equals exactly that response, so the held log list
\* is always the empty initial list or one window the backend returned.
C13_ResponseReplacesSnapshot ==
    /\ (out.op = "resolved" /\ out.src = "useLogs" /\ "logs" \in out.writes) =>
           hookVal["useLogs"] = out.res
    /\ (out.op = "resolved" /\ out.src = "useMetrics" /\ "metrics" \in out.writes) =>
           hookVal["useMetrics"] = out.res
    /\ (out.op = "resolved" /\ out.src = "useScraper" /\ "logs" \in out.writes) =>
           sLogs = out.res
    /\ (out.op = "resolved" /\ out.src = "useScraper" /\ "metrics" \in out.writes) =>
           sMetrics = out.res
    /\ hookVal["useLogs"] \in LogWindows \cup {<<>>}
    /\ sLogs \in LogWindows \cup {<<>>}

\* useLogs held a window of two lines and has applied a response of one line.
C13_Witness ==
    /\ out.src = "useLogs" /\ out.op = "resolved" /\ "logs" \in out.writes
    /\ Len(out.before) = 2
    /\ Len(hookVal["useLogs"]) = 1

-----------------------------------------------------------------------------
(* Claims about failed requests, checked under SpecActions and SpecAll.    *)

\* The message the uniform rule picks for a failed request.
UniformMessage(err) == Or(err.detail, Or(err.message, "An unexpected error occurred"))

RequestFailed(o) ==
    o.op \in {"rejected", "keywordsRejected", "uploadRejected", "resetRejected",
              "controlRejected"}

\* C15: whatever request failed, every failure message shown for it carries
\* the message of the uniform rule: the response body's detail if present,
\* otherwise the transport error message, otherwise the generic fallback.
C15_UniformErrorMessage ==
    RequestFailed(out) =>
        \A i \in DOMAIN out.toasts :
            IsFailureMessage(out.toasts[i]) =>
                out.toasts[i].text[Len(out.toasts[i].text)] = UniformMessage(out.res)

NumUploads == Cardinality({i \in DOMAIN out.reqs : IsUpload(out.reqs[i])})

\* C17: an upload is never retried.  One file selection sends at most one
\* POST /keywords/upload and nothing else, and no other step (the handling of
\* the upload's success, of its error response or of its transport failure
\* included) sends one.
C17_NoUploadRetry ==
    /\ out.op = "upload" => NumUploads = Len(out.reqs) /\ NumUploads <= 1
    /\ out.op # "upload" => NumUploads = 0

\* An upload has failed at transport level and its handler has sent nothing.
C17_Witness ==
    /\ out.op = "uploadRejected"
    /\ out.res = TransportError
    /\ out.reqs = <<>>

-----------------------------------------------------------------------------
(* The control handlers next to the poll that feeds the status they show:  *)
(* ControlPanel is given the status of useScraperStatus, the Dashboard     *)
(* page the status of useScraper.  The poller has had all but one of its   *)
(* polls answered and all but two of the call numbers are used.            *)

InitControl ==
    /\ view \in {"ControlPanel", "Dashboard"}
    /\ vPhase = "mounted"
    \* first: the status hook's fetch in flight is the first one, none has
    \* settled yet and ControlPanel is given isLoading = true.
    /\ \E s \in Statuses : \E first \in BOOLEAN :
          /\ first => (view = "ControlPanel" /\ s = InitVal("useScraperStatus"))
          /\ hookVal = [h \in Hooks |-> IF h = PollerOf(view) THEN s ELSE InitVal(h)]
          /\ sStatus = IF PollerOf(view) = "useScraper" THEN s ELSE "idle"
          /\ isLoading = (first \/ PollerOf(view) # "useScraperStatus")
          /\ inflight = [h \in Hooks |->
                            IF first /\ h = PollerOf(view)
                            THEN {[seq |-> MaxFetch - 1, gen |-> 1]} ELSE {}]
          /\ applied = [h \in Hooks |->
                           IF h = PollerOf(view)
                           THEN (IF first THEN MaxFetch - 2 ELSE MaxFetch - 1) ELSE 0]
    /\ phase = [h \in Hooks |-> IF h = PollerOf(view) THEN "mounted" ELSE "init"]
    /\ gen = [h \in Hooks |-> IF h = PollerOf(view) THEN 1 ELSE 0]
    /\ timers = [h \in Hooks |-> IF phase[h] = "mounted" THEN {gen[h]} ELSE {}]
    /\ logLimit = DefaultLogLimit
    /\ hookErr = [h \in Hooks |-> Null]
    /\ nextSeq = [h \in Hooks |-> IF h = PollerOf(view) THEN MaxFetch - 1 ELSE 0]
    /\ sPhase = IF PollerOf(view) = "useScraper" THEN "mounted" ELSE "init"
    /\ sMetrics = InitMetrics
    /\ sLogs = <<>>
    /\ sTicks = {}
    /\ sNextTick = IF PollerOf(view) = "useScraper" THEN MaxTicks - 1 ELSE 0
    /\ sApplied = [pc \in Reads |->
                      IF PollerOf(view) = "useScraper" THEN MaxTicks - 1 ELSE 0]
    /\ sKeywords = JsArray(<<>>)
    /\ keywords = <<>>
    /\ loading = FALSE
    /\ pagination = InitPagination
    /\ uploadMode = "add"
    /\ calls = {}
    /\ nextId = MaxCalls - 2
    /\ records = {}
    /\ nextRecId = 0
    /\ out = Quiet("App", "render")

NextControl ==
    \/ \E src \in {"useScraper", "ControlPanel"} : \E action \in Actions : control(src, action)
    \/ \E c \in calls : controlResolved(c)
    \/ \E c \in calls : \E err \in Errors : controlRejected(c, err)
    \/ intervalTick("useScraperStatus")
    \/ \E r \in inflight["useScraperStatus"] : \E data \in Responses("useScraperStatus") :
          fetchResolved("useScraperStatus", r, data)
    \/ \E r \in inflight["useScraperStatus"] : \E err \in Errors :
          fetchRejected("useScraperStatus", r, err)
    \/ scraperTick
    \/ \E t \in sTicks : \E data \in ScraperResponses(t.pc) : scraperResolved(t, data)
    \/ \E t \in sTicks : \E err \in Errors : scraperRejected(t, err)
    \/ \E tab \in Tabs : setActiveTab(tab)

SpecControl == InitControl /\ [][NextControl]_vars

\* C14: the client never computes the job status.  The held status changes
\* only when a /status response is applied, and then to that response's status
\* field; sending a control command, and its success or its failure, leave it
\* as it was.
C14_StatusOnlyFromBackend ==
    [][/\ hookVal'["useScraperStatus"] # hookVal["useScraperStatus"] =>
             /\ out'.src = "useScraperStatus" /\ out'.op = "resolved"
             /\ hookVal'["useScraperStatus"] = out'.res.status
       /\ sStatus' # sStatus =>
             /\ out'.src = "useScraper" /\ out'.op = "resolved"
             /\ "status" \in out'.writes
             /\ sStatus' = out'.res.status
       /\ out'.op \in {"control", "controlResolved", "controlRejected"} =>
             /\ hookVal'["useScraperStatus"] = hookVal["useScraperStatus"]
             /\ sStatus' = sStatus]_vars

\* The start command sent from ControlPanel has succeeded and the status shown
\* is still idle.
C14_Witness ==
    /\ out.src = "ControlPanel" /\ out.op = "controlResolved"
    /\ out.req.arg = "start"
    /\ hookVal["useScraperStatus"] = "idle"

-----------------------------------------------------------------------------
(* The whole client: a behaviour follows either one poller from its mount  *)
(* or one view's handlers next to the poll of its page.                    *)

InitAll == Init \/ InitActions

NextAll ==
    \/ view \in Pollers /\ Next
    \/ view \in Views /\ NextActions

SpecAll == InitAll /\ [][NextAll]_vars

-----------------------------------------------------------------------------
(* Claims about every request of the client, checked under SpecAll.        *)

IsServerErrorToast(t) == t.level = "error" /\ t.text[1] = "Server Error: "

\* C16: for a failed request a "Server Error" notification is raised exactly
\* when the response has an HTTP status >= 500, not for a 4xx response nor for
\* a transport error; in every case the caller's catch block is given the error.
C16_ServerErrorExactlyFor5xx ==
    RequestFailed(out) =>
        /\ Shown(IsServerErrorToast) <=> out.res.status >= 500
        /\ out.res \in Errors

\* A request was answered with HTTP 500: the notification is up and the
\* caller has handled the rejection.
C16_Witness ==
    /\ RequestFailed(out)
    /\ out.res = ServerError
    /\ Shown(IsServerErrorToast)

\* C18: no failed call is fatal.  The step that handles a failure is the
\* catch block of the hook or handler that made the call; it leaves every
\* poller's timer in place, so the next interval polls again; it leaves the
\* control buttons that were enabled enabled, takes the status display out of
\* its loading placeholder, ends the loading state of the keyword list, and
\* leaves no call pending that was not pending before.
C18_NoFailureIsFatal ==
    [][RequestFailed(out') =>
          /\ phase' = phase /\ gen' = gen /\ sPhase' = sPhase
          /\ timers' = timers /\ vPhase' = vPhase
          /\ isLoading' => isLoading
          /\ (out'.src = "useScraperStatus" /\ isMounted("useScraperStatus", out'.req)) =>
                 ~isLoading'
          /\ (out'.src = "useKeywords" /\ out'.op = "keywordsRejected") => ~loading'
          /\ PanelEnabled(hookVal["useScraperStatus"], isLoading) \subseteq
                 PanelEnabled(hookVal'["useScraperStatus"], isLoading')
          /\ DashboardEnabled(sStatus') = DashboardEnabled(sStatus)
          /\ calls' \subseteq calls /\ out'.req \notin calls'
          /\ \A h \in Hooks : inflight'[h] \subseteq inflight[h]
          /\ sTicks' \subseteq sTicks]_vars

\* The first /status fetch of useScraperStatus has failed while its view is
\* mounted: the hook is out of its loading state and its timer is in place.
C18_Witness ==
    /\ out.src = "useScraperStatus" /\ out.op = "rejected"
    /\ applied["useScraperStatus"] = 0
    /\ phase["useScraperStatus"] = "mounted"
    /\ ~isLoading

-----------------------------------------------------------------------------
(* The backend's keyword store, after sections 3 and 4.1 of the design     *)
(* specification: the records, the worker's transitions, the ingestion     *)
(* modes and the reset family.                                             *)

RecStatuses == {"PENDING", "PROCESSING", "DONE", "FAILED", "SKIPPED"}

Texts == {"pizza", "sushi", "ramen"}

\* An uploaded file: its rows, each a keyword text.
Files == SUBSET Texts

\* The order in which the rows of a file are read.
RowOrder(t) ==
    CASE t = "pizza" -> 1
      [] t = "sushi" -> 2
      [] t = "ramen" -> 3

clientVars == <<pollVars, view, vPhase, sKeywords, kwState, uploadMode, calls, nextId>>

ExistingPending == {r.text : r \in {q \in records : q.status = "PENDING"}}

\* The texts the store holds: a row whose text is among them is a duplicate.
Existing == {r.text : r \in records}

\* Fresh records, PENDING, for the rows of a file: ids are never reused.
Inserted(rows) ==
    {[id |-> nextRecId + Cardinality({u \in rows : RowOrder(u) <= RowOrder(t)}),
      text |-> t, status |-> "PENDING"] : t \in rows}

SurvivorsDone(mode) ==
    IF mode = "replace" THEN {r \in records : r.status = "DONE"} ELSE records

\* The records an ingestion leaves in place: replace deletes every record
\* before it inserts, add and sync delete nothing.
Survivors(mode) == IF mode = "replace" THEN {} ELSE records

\* POST /keywords/upload as processed by the backend.
ingest(mode, file) ==
    LET rows == IF mode = "replace" THEN file ELSE file \ Existing
    IN  /\ nextRecId + Cardinality(rows) <= MaxRecId
        /\ records' = Survivors(mode) \cup Inserted(rows)
        /\ nextRecId' = nextRecId + Cardinality(rows)
        /\ out' = [Quiet("backend", mode) EXCEPT
                      !.arg = file,
                      !.res = [success |-> TRUE, inserted |-> Cardinality(rows),
                               skipped |-> Cardinality(file) - Cardinality(rows),
                               deleted |-> Cardinality(records \ Survivors(mode))]]
        /\ UNCHANGED clientVars

\* The worker takes a PENDING record.
workerStart(r) ==
    /\ r \in records /\ r.status = "PENDING"
    /\ records' = (records \ {r}) \cup {[r EXCEPT !.status = "PROCESSING"]}
    /\ out' = Quiet("backend", "start")
    /\ UNCHANGED <<nextRecId, clientVars>>

\* The worker ends a processing attempt.
workerFinish(r, s) ==
    /\ r \in records /\ r.status = "PROCESSING"
    /\ s \in {"DONE", "FAILED", "SKIPPED"}
    /\ records' = (records \ {r}) \cup {[r EXCEPT !.status = s]}
    /\ out' = Quiet("backend", "finish")
    /\ UNCHANGED <<nextRecId, clientVars>>

\* The statuses a reset operation moves back to PENDING.
ResetFromAny(kind) == {"FAILED", "SKIPPED", "PROCESSING"}

ResetFromEvery(kind) == RecStatuses \ {"PENDING"}

ResetFrom(kind) ==
    CASE kind = "reset-failed" -> {"FAILED"}
      [] kind = "reset-skipped" -> {"SKIPPED"}
      [] kind = "reset-all" -> {"FAILED", "SKIPPED", "PROCESSING"}

\* POST /keywords/reset-failed, reset-skipped, reset-all as processed by the backend.
resetRecords(kind) ==
    /\ records' = {IF r.status \in ResetFrom(kind) THEN [r EXCEPT !.status = "PENDING"] ELSE r :
                      r \in records}
    /\ out' = [Quiet("backend", kind) EXCEPT
                  !.res = [success |-> TRUE,
                           affected_count |->
                               Cardinality({r \in records : r.status \in ResetFrom(kind)})]]
    /\ UNCHANGED <<nextRecId, clientVars>>

InitBackend ==
    /\ view = "backend"
    /\ vPhase = "none"
    /\ phase = [h \in Hooks |-> "init"]
    /\ gen = [h \in Hooks |-> 0]
    /\ timers = [h \in Hooks |-> IF phase[h] = "mounted" THEN {gen[h]} ELSE {}]
    /\ logLimit = DefaultLogLimit
    /\ hookVal = [h \in Hooks |-> InitVal(h)]
    /\ hookErr = [h \in Hooks |-> Null]
    /\ isLoading = TRUE
    /\ inflight = [h \in Hooks |-> {}]
    /\ nextSeq = [h \in Hooks |-> 0]
    /\ applied = [h \in Hooks |-> 0]
    /\ sPhase = "init"
    /\ sStatus = "idle"
    /\ sMetrics = InitMetrics
    /\ sLogs = <<>>
    /\ sTicks = {}
    /\ sNextTick = 0
    /\ sApplied = [pc \in Reads |-> 0]
    /\ sKeywords = JsArray(<<>>)
    /\ keywords = <<>>
    /\ loading = FALSE
    /\ pagination = InitPagination
    /\ uploadMode = "add"
    /\ calls = {}
    /\ nextId = 0
    /\ records = {}
    /\ nextRecId = 0
    /\ out = Quiet("backend", "boot")

NextBackend ==
    \/ \E mode \in Modes : \E file \in Files : ingest(mode, file)
    \/ \E r \in records : workerStart(r)
    \/ \E r \in records : \E s \in RecStatuses : workerFinish(r, s)
    \/ \E kind \in Resets : resetRecords(kind)

SpecBackend == InitBackend /\ [][NextBackend]_vars

-----------------------------------------------------------------------------
(* Claims about the keyword store, checked under SpecBackend.              *)

WithStatus(recs, st) == {r \in recs : r.status = st}

Count(recs, st) == Cardinality(WithStatus(recs, st))

\* C19 (as stated): reset-failed changes only the records that were FAILED,
\* each becoming PENDING, and the counts of DONE, PENDING, PROCESSING and
\* SKIPPED records are the same after it as before it.
C19_ResetFailedKeepsCounts ==
    [][(out'.src = "backend" /\ out'.op = "reset-failed") =>
          /\ \A r \in records :
                IF r.status = "FAILED"
                THEN [r EXCEPT !.status = "PENDING"] \in records'
                ELSE r \in records'
          /\ \A st \in {"DONE", "PENDING", "PROCESSING", "SKIPPED"} :
                Count(records', st) = Count(records, st)]_vars

\* C19 (amended): reset-failed changes only the records that were FAILED,
\* each becoming PENDING; the counts of DONE, PROCESSING and SKIPPED records
\* are the same after it as before it, no record is FAILED, and the count of
\* PENDING records has grown by the number of records that were FAILED.
C19_ResetFailedChangesOnlyFailed ==
    [][(out'.src = "backend" /\ out'.op = "reset-failed") =>
          /\ records' = {IF r.status = "FAILED" THEN [r EXCEPT !.status = "PENDING"] ELSE r :
                             r \in records}
          /\ \A st \in {"DONE", "PROCESSING", "SKIPPED"} :
                Count(records', st) = Count(records, st)
          /\ Count(records', "FAILED") = 0
          /\ Count(records', "PENDING") =
                Count(records, "PENDING") + Count(records, "FAILED")]_vars

\* reset-failed has moved a FAILED record back next to a DONE and a SKIPPED one.
C19_Witness ==
    /\ out.src = "backend" /\ out.op = "reset-failed"
    /\ out.res.affected_count >= 1
    /\ Count(records, "DONE") >= 1
    /\ Count(records, "SKIPPED") >= 1

\* C20: no reset operation and no add or sync ingestion changes a DONE record:
\* the set of DONE records never shrinks under them, so reset-all never reduces
\* the DONE count; only replace removes DONE records.
C20_DoneIsPermanent ==
    [][/\ (out'.src = "backend" /\ out'.op \in Resets \cup {"add", "sync"}) =>
             /\ WithStatus(records, "DONE") \subseteq WithStatus(records', "DONE")
             /\ Count(records', "DONE") >= Count(records, "DONE")
       /\ ~(WithStatus(records, "DONE") \subseteq WithStatus(records', "DONE")) =>
             out'.src = "backend" /\ out'.op = "replace"]_vars

\* reset-all has moved records back to PENDING in a store that holds a DONE record.
C20_Witness ==
    /\ out.src = "backend" /\ out.op = "reset-all"
    /\ out.res.affected_count >= 1
    /\ Count(records, "DONE") >= 1

TextsOf(recs) == {r.text : r \in recs}

\* C21: add-mode upload is idempotent. An add upload leaves every row of its
\* file in the store and removes or changes no record; an add upload of a
\* file whose rows are all in the store already, as they are after a first
\* upload of that file, inserts zero records and leaves every record as it
\* was, whatever statuses the records have by then; and between the two
\* uploads no worker step, reset, add or sync takes a text out of the store.
C21_AddIsIdempotent ==
    [][/\ (out'.src = "backend" /\ out'.op = "add") =>
             /\ out'.arg \subseteq TextsOf(records')
             /\ records \subseteq records'
             /\ out'.arg \subseteq TextsOf(records) =>
                    (records' = records /\ out'.res.inserted = 0)
       /\ (out'.src = "backend" /\ out'.op # "replace") =>
             TextsOf(records) \subseteq TextsOf(records')]_vars

\* The same two-row file has been uploaded again in add mode after the worker
\* finished one of its records and failed the other: nothing was inserted.
C21_Witness ==
    /\ out.src = "backend" /\ out.op = "add"
    /\ out.arg = {"pizza", "sushi"}
    /\ out.res.inserted = 0 /\ out.res.skipped = 2
    /\ \E r \in records : r.text = "pizza" /\ r.status = "DONE"
    /\ \E r \in records : r.text = "sushi" /\ r.status = "FAILED"

\* C22: after a replace upload of a file of K rows the store holds exactly K
\* records, one per row, all PENDING, and none of them is a record that
\* existed before, whatever the prior records were: no prior record, in
\* particular no DONE record, exists afterwards.
C22_ReplaceLeavesOnlyTheFile ==
    [][(out'.src = "backend" /\ out'.op = "replace") =>
          /\ Cardinality(records') = Cardinality(out'.arg)
          /\ TextsOf(records') = out'.arg
          /\ \A r \in records' : r.status = "PENDING"
          /\ records' \cap records = {}
          /\ \A r \in records' : \A q \in records : r.id # q.id
          /\ Count(records', "DONE") = 0]_vars

\* A one-row file has replaced a store of two records: the store holds one
\* record, PENDING and with a fresh id.
C22_Witness ==
    /\ out.src = "backend" /\ out.op = "replace"
    /\ out.arg = {"pizza"}
    /\ out.res.deleted = 2
    /\ Cardinality(records) = 1
    /\ \A r \in records : r.status = "PENDING" /\ r.id >= 3

-----------------------------------------------------------------------------
(* Claims about the keyword hooks' held state, checked under SpecActions.  *)

\* The fetchKeywords requests of useKeywords that are outstanding.
Fetching == {c \in calls : c.src = "useKeywords" /\ c.kind = "fetch"}

\* C23: in useKeywords, loading is true whenever at least one fetchKeywords
\* request is outstanding and false when none is, also when fetches overlap.
C23_LoadingIffFetching == loading <=> Fetching # {}

\* C24: in useKeywords the held keywords and pagination always stem from the
\* same /keywords response: only the handling of a successful response
\* changes either of them, and it sets keywords to the items of that response
\* and pagination to its page, limit, total and total_pages; a failed fetch
\* changes neither, under any interleaving of overlapping fetches.
C24_KeywordsAndPaginationOfOneResponse ==
    [][/\ (keywords' # keywords \/ pagination' # pagination) =>
             (out'.src = "useKeywords" /\ out'.op = "keywordsResolved")
       /\ (out'.src = "useKeywords" /\ out'.op = "keywordsResolved") =>
             /\ keywords' = (IF "items" \in DOMAIN out'.res THEN out'.res.items ELSE <<>>)
             /\ pagination' = [page |-> out'.res.page, limit |-> out'.res.limit,
                               total |-> out'.res.total,
                               total_pages |-> out'.res.total_pages]
       /\ (out'.src = "useKeywords" /\ out'.op = "keywordsRejected") =>
             (keywords' = keywords /\ pagination' = pagination)]_vars

\* Two fetches overlapped and the response to the earlier one has been
\* applied last: keywords and pagination are both those of that response.
C24_Witness ==
    /\ out.src = "useKeywords" /\ out.op = "keywordsResolved"
    /\ out.req.id < nextId /\ Fetching = {}
    /\ Len(keywords) = 2
    /\ pagination.page = out.req.page
    /\ pagination.total = (out.req.page - 1) * out.req.limit + 2

\* C25: the keywords value held by a keyword hook (useKeywords and
\* useScraper) is a list in every reachable state, for every successful
\* /keywords response of the documented shape, also one without items.
C25_KeywordsIsAList ==
    /\ DOMAIN keywords = 1 .. Len(keywords)
    /\ sKeywords.isArray

-----------------------------------------------------------------------------
(* Claims about ControlPanel, checked under SpecControl.                   *)

\* The commands the claim allows for a displayed status.
AllowedFor(st) ==
    {a \in Actions :
        \/ a = "start" /\ st \in {"idle", "stopped", "error"}
        \/ a = "stop" /\ st \in {"running", "paused"}
        \/ a = "pause" /\ st = "running"
        \/ a = "resume" /\ st = "paused"}

\* C26: in ControlPanel the commands that can be sent are a function of the
\* displayed status only: start only when idle, stopped or error, stop only
\* when running or paused, pause only when running, resume only when paused.
\* Every command ControlPanel sends is one of the four and is allowed for the
\* status displayed when it is sent; and whenever the panel displays a
\* status, start and stop are not both available and some command is.
C26_CommandsFollowStatus ==
    [][/\ (out'.src = "ControlPanel" /\ out'.op = "control") =>
             /\ ~isLoading
             /\ out'.arg \in Actions
             /\ out'.arg \in AllowedFor(hookVal["useScraperStatus"])
             /\ out'.reqs = <<controlScraper(out'.arg)>>
       /\ (view' = "ControlPanel" /\ ~isLoading') =>
             LET e == PanelEnabled(hookVal'["useScraperStatus"], isLoading')
             IN  /\ e = AllowedFor(hookVal'["useScraperStatus"])
                 /\ e # {}
                 /\ ~({"start", "stop"} \subseteq e)]_vars

\* The panel displays paused and resume has been sent.
C26_Witness ==
    /\ out.src = "ControlPanel" /\ out.op = "control"
    /\ out.arg = "resume"
    /\ hookVal["useScraperStatus"] = "paused"
    /\ ~isLoading

-----------------------------------------------------------------------------
(* Claims about the effect's dependencies, checked under Spec.             *)

\* A response to a fetch that an earlier run of the effect issued.
StaleResponse(o) ==
    /\ o.src \in Hooks /\ o.op \in {"resolved", "rejected"}
    /\ phase[o.src] = "mounted"
    /\ o.req.gen < gen[o.src]

\* C27: when a poller's parameters change while it is mounted, the old
\* interval timer is cleared before the new one is started, so at most one
\* timer per poller is set at any time (that of the current effect run, and
\* none once torn down), and a response to a fetch issued under the old
\* parameters that resolves after the change is discarded: it writes nothing.
C27_OneTimerAndOldResponsesDiscarded ==
    [][/\ \A h \in Hooks :
             /\ Cardinality(timers'[h]) <= 1
             /\ timers'[h] = (IF phase'[h] = "mounted" THEN {gen'[h]} ELSE {})
       /\ \A h \in Hooks :
             (out'.src = h /\ out'.op \in {"resolved", "rejected"} /\
              phase[h] = "mounted" /\ out'.req.gen < gen[h]) =>
                /\ hookVal'[h] = hookVal[h]
                /\ hookErr'[h] = hookErr[h]
                /\ isLoading' = isLoading
                /\ applied'[h] = applied[h]
                /\ out'.writes = {}]_vars

\* useLogs was given another limit while mounted, its effect has run a second
\* time, and the response to the first run's fetch, which differs from the
\* held value, has just arrived.
C27_Witness ==
    /\ StaleResponse(out) /\ out.op = "resolved"
    /\ out.src = "useLogs" /\ logLimit # DefaultLogLimit
    /\ out.req.gen = 1 /\ gen[out.src] = 2
    /\ timers[out.src] = {2}
    /\ out.writes = {}
    /\ \E d \in Responses(out.src) : d = out.res /\ Kept(out.src, d) # hookVal[out.src]

=============================================================================
